---- MODULE Spec2Model ----
(***************************************************************************)
(* Model of src/API/s3.py: the three S3 proxy endpoints of raw-data-api.   *)
(*   list_s3_files  GET  /s3/files/   streamed JSON array of a listing     *)
(*   head_s3_file   HEAD /s3/get/{p}  metadata headers                     *)
(*   get_s3_file    GET  /s3/get/{p}  inline JSON or presigned redirect    *)
(* Python strings are sequences of one-character strings, so that strip,   *)
(* quote, lower, endswith, strftime and json.dumps are computed and not    *)
(* assumed.                                                                *)
(***************************************************************************)
EXTENDS Integers, Sequences, FiniteSets, TLC

(***************************************************************************)
(* Bounds of the model                                                     *)
(***************************************************************************)
\* most records the provider puts in one page
MaxPageSize == 2
\* most record-less pages the provider interleaves in one listing
MaxEmptyPages == 1

(***************************************************************************)
(* Strings                                                                 *)
(***************************************************************************)
RECURSIVE Flatten(_)
Flatten(ss) == IF ss = <<>> THEN <<>> ELSE Head(ss) \o Flatten(Tail(ss))

RECURSIVE Digits(_)
\* str(n) for a non-negative int
Digits(n) ==
    LET d == <<"0", "1", "2", "3", "4", "5", "6", "7", "8", "9">>
    IN  IF n < 10 THEN <<d[n + 1]>> ELSE Digits(n \div 10) \o <<d[(n % 10) + 1]>>

\* %02d
Pad2(n) == IF n < 10 THEN <<"0">> \o Digits(n) ELSE Digits(n)

RECURSIVE LStrip(_, _)
LStrip(s, c) == IF s # <<>> /\ Head(s) = c THEN LStrip(Tail(s), c) ELSE s

RECURSIVE RStrip(_, _)
RStrip(s, c) ==
    IF s # <<>> /\ s[Len(s)] = c THEN RStrip(SubSeq(s, 1, Len(s) - 1), c) ELSE s

\* str.strip("/")
Strip(s) == RStrip(LStrip(s, "/"), "/")

UpperCase == {"M", "J", "S", "O", "N"}

\* str.lower(), on the characters the model uses
LowerChar(c) ==
    CASE c = "M" -> "m"
      [] c = "J" -> "j"
      [] c = "S" -> "s"
      [] c = "O" -> "o"
      [] c = "N" -> "n"
      [] OTHER -> c

Lower(s) == [i \in 1..Len(s) |-> LowerChar(s[i])]

\* str.endswith
EndsWith(s, suf) ==
    /\ Len(s) >= Len(suf)
    /\ SubSeq(s, Len(s) - Len(suf) + 1, Len(s)) = suf

\* str.startswith
StartsWith(s, pre) ==
    /\ Len(s) >= Len(pre)
    /\ SubSeq(s, 1, Len(pre)) = pre

\* characters urllib.parse.quote leaves alone (safe = "/")
QuoteSafe ==
    {"a", "b", "d", "e", "f", "j", "m", "n", "o", "s", "w", "x", "y", "z",
     "M", "J", "S", "O", "N", "0", "2", "5", ".", "/", "_", "-", "~"}

QuoteChar(c) ==
    CASE c \in QuoteSafe -> <<c>>
      [] c = " " -> <<"%", "2", "0">>
      [] c = "%" -> <<"%", "2", "5">>

\* urllib.parse.quote(s)
Quote(s) == Flatten([i \in 1..Len(s) |-> QuoteChar(s[i])])

DotJson == <<".", "j", "s", "o", "n">>

(***************************************************************************)
(* Timestamps and the formatting the handlers apply to them                *)
(***************************************************************************)
MonthAbbr ==
    <<<<"J","a","n">>, <<"F","e","b">>, <<"M","a","r">>, <<"A","p","r">>,
      <<"M","a","y">>, <<"J","u","n">>, <<"J","u","l">>, <<"A","u","g">>,
      <<"S","e","p">>, <<"O","c","t">>, <<"N","o","v">>, <<"D","e","c">>>>

DayAbbr ==
    <<<<"M","o","n">>, <<"T","u","e">>, <<"W","e","d">>, <<"T","h","u">>,
      <<"F","r","i">>, <<"S","a","t">>, <<"S","u","n">>>>

\* a datetime: ord is the day's ordinal (date.toordinal), wd its weekday
DateTime(y, mo, d, wd, ord, h, mi, s) ==
    [year |-> y, month |-> mo, day |-> d, weekday |-> wd, ord |-> ord,
     hour |-> h, minute |-> mi, second |-> s]

\* the day the request is served on (date.today() inside humanize)
Today == DateTime(2024, 3, 9, 6, 738954, 12, 0, 0)

\* strftime("%Y-%m-%dT%H:%M:%SZ")
StrftimeIso(t) ==
    Digits(t.year) \o <<"-">> \o Pad2(t.month) \o <<"-">> \o Pad2(t.day) \o <<"T">>
    \o Pad2(t.hour) \o <<":">> \o Pad2(t.minute) \o <<":">> \o Pad2(t.second)
    \o <<"Z">>

\* strftime("%a, %d %b %Y %H:%M:%S GMT")
StrftimeHttp(t) ==
    DayAbbr[t.weekday] \o <<",", " ">> \o Pad2(t.day) \o <<" ">>
    \o MonthAbbr[t.month] \o <<" ">> \o Digits(t.year) \o <<" ">>
    \o Pad2(t.hour) \o <<":">> \o Pad2(t.minute) \o <<":">> \o Pad2(t.second)
    \o <<" ", "G", "M", "T">>

\* humanize.naturaldate: today/tomorrow/yesterday, else "%b %d", with the
\* year once the date is about five months away
NaturalDate(t) ==
    LET delta == t.ord - Today.ord
        abs == IF delta < 0 THEN 0 - delta ELSE delta
    IN  CASE delta = 0 -> <<"t","o","d","a","y">>
          [] delta = 1 -> <<"t","o","m","o","r","r","o","w">>
          [] delta = -1 -> <<"y","e","s","t","e","r","d","a","y">>
          [] OTHER ->
               MonthAbbr[t.month] \o <<" ">> \o Pad2(t.day)
               \o (IF abs >= 153 THEN <<" ">> \o Digits(t.year) ELSE <<>>)

\* humanize.naturalsize (decimal units): "1 Byte", "N Bytes", "%.1f kB"
NaturalSize(n) ==
    LET tenths == (n + 50) \div 100
    IN  CASE n = 1 -> <<"1", " ", "B", "y", "t", "e">>
          [] n # 1 /\ n < 1000 -> Digits(n) \o <<" ", "B", "y", "t", "e", "s">>
          [] OTHER ->
               Digits(tenths \div 10) \o <<".">> \o Digits(tenths % 10)
               \o <<" ", "k", "B">>

(***************************************************************************)
(* The bucket, in the order the provider lists it                          *)
(***************************************************************************)
JsonBody == <<"{", "}">>
BadBody == <<"{">>

S3Object(key, size, t, body) ==
    [Key |-> key, Size |-> size, LastModified |-> t, Body |-> body]

Bucket ==
    << S3Object(<<"M", ".", "J", "S", "O", "N">>, 1,
                DateTime(2024, 3, 8, 5, 738953, 9, 5, 7), JsonBody),
       S3Object(<<"a">>, 1500,
                DateTime(2023, 1, 2, 1, 738522, 0, 0, 0), BadBody),
       S3Object(<<"a", " ", "b", ".", "j", "s", "o", "n">>, 1,
                DateTime(2024, 3, 9, 6, 738954, 1, 2, 3), BadBody),
       S3Object(<<"a", "%", "2", "0", "b", ".", "j", "s", "o", "n">>, 2,
                DateTime(2024, 3, 9, 6, 738954, 1, 2, 4), JsonBody),
       S3Object(<<"d", "/", "x">>, 1,
                DateTime(2024, 3, 9, 6, 738954, 8, 30, 0), JsonBody),
       S3Object(<<"d", "/", "y">>, 2,
                DateTime(2024, 3, 8, 5, 738953, 23, 59, 59), JsonBody),
       S3Object(<<"d", "/", "z">>, 1500,
                DateTime(2023, 1, 2, 1, 738522, 0, 0, 0), JsonBody),
       S3Object(<<"e", "/", "w">>, 0,
                DateTime(2024, 1, 15, 1, 738900, 10, 0, 0), JsonBody),
       S3Object(<<"m", ".", "j", "s", "o", "n">>, 2,
                DateTime(2024, 3, 10, 7, 738955, 4, 5, 6), JsonBody) >>

BucketKeys == {Bucket[i].Key : i \in 1..Len(Bucket)}

ObjectAt(key) == Bucket[CHOOSE i \in 1..Len(Bucket) : Bucket[i].Key = key]

\* list_objects_v2(Prefix = prefix): the whole listing, before paging
RECURSIVE ListingOf(_, _)
ListingOf(objs, prefix) ==
    IF objs = <<>> THEN <<>>
    ELSE (IF StartsWith(Head(objs).Key, prefix) THEN <<Head(objs)>> ELSE <<>>)
         \o ListingOf(Tail(objs), prefix)

\* what a provider call can raise besides "no such object"
NoCredentialsError ==
    [cls |-> "NoCredentialsError", code |-> "none",
     msg |-> "Unable to locate credentials"]

ClientError(code, msg) == [cls |-> "ClientError", code |-> code, msg |-> msg]

AccessDenied == ClientError("403", "Forbidden")
NotFound == ClientError("404", "Not Found")
NoSuchKey == ClientError("NoSuchKey", "The specified key does not exist.")


(***************************************************************************)
(* State                                                                   *)
(***************************************************************************)
VARIABLES
    lreq,           \* listing requests: handler and generator locals
    page_iterator,  \* the PageIterator objects made by paginator.paginate
    oreq            \* the HEAD or GET request on /s3/get/{file_path}

vars == <<lreq, page_iterator, oreq>>

\* two listing requests, interleaved at every yield and provider call
ListRequests == {1, 2}

\* folder query values
Folders == {<<"/", "d">>, <<"e", "/">>, <<"f">>}

(***************************************************************************)
(* list_s3_files                                                           *)
(***************************************************************************)
\* the chunks the generator yields are strings
OPEN == <<"[">>
COMMA == <<",">>
CLOSE == <<"]">>

\* prefix = f"{folder}/" after folder.strip("/")
PrefixOf(folder) == Strip(folder) \o <<"/">>

\* ItemDict with the prettified branch also rewriting the key
ItemDictKeyPrettified(item, prettify) ==
    [Key |-> [t |-> "str",
              v |-> IF prettify THEN SubSeq(item.Key, 3, Len(item.Key))
                    ELSE item.Key],
     LastModified |->
        [t |-> "str",
         v |-> IF prettify THEN NaturalDate(item.LastModified)
               ELSE StrftimeIso(item.LastModified)],
     Size |->
        IF prettify THEN [t |-> "str", v |-> NaturalSize(item.Size)]
        ELSE [t |-> "int", v |-> item.Size]]

\* size and last_modified as the generator computes them
ItemDict(item, prettify) ==
    [Key |-> [t |-> "str", v |-> item.Key],
     LastModified |->
        [t |-> "str",
         v |-> IF prettify THEN NaturalDate(item.LastModified)
               ELSE StrftimeIso(item.LastModified)],
     Size |->
        IF prettify THEN [t |-> "str", v |-> NaturalSize(item.Size)]
        ELSE [t |-> "int", v |-> item.Size]]

\* json.dumps of a str or an int
JsonValue(x) ==
    IF x.t = "int" THEN Digits(x.v) ELSE <<"\"">> \o x.v \o <<"\"">>

KeyField == <<"\"", "K", "e", "y", "\"", ":", " ">>
LastModifiedField ==
    <<"\"", "L", "a", "s", "t", "M", "o", "d", "i", "f", "i", "e", "d", "\"",
      ":", " ">>
SizeField == <<"\"", "S", "i", "z", "e", "\"", ":", " ">>

\* json.dumps(item_dict, default=str)
JsonDumps(d) ==
    <<"{">> \o KeyField \o JsonValue(d.Key) \o <<",", " ">>
    \o LastModifiedField \o JsonValue(d.LastModified) \o <<",", " ">>
    \o SizeField \o JsonValue(d.Size) \o <<"}">>

\* one PageIterator shared by every request
PageIteratorShared(r) == 1

\* the PageIterator a request's generator closes over: paginate() makes a
\* new one on every call
PageIteratorOf(r) == r

\* paginator.paginate(Bucket, Prefix): no provider call yet
Paginate(prefix) == [prefix |-> prefix, token |-> 0, empties |-> 0]

\* the separator flag starting out cleared
FirstItemInitFalse == FALSE

\* first_item = True
FirstItemInit == TRUE

\* response.get("Contents", [])
ResponseGetContents(response) ==
    IF response.has_contents THEN response.Contents ELSE <<>>

IdleList ==
    [pc |-> "idle", folder |-> <<>>, prefix |-> <<>>, prettify |-> FALSE,
     status |-> 0, first_item |-> FALSE, contents |-> <<>>, idx |-> 0,
     out |-> <<>>, returned |-> <<>>, error |-> "none"]

\* the pages the provider can answer with when iterator `it` is advanced
NextPages(it) ==
    LET all == ListingOf(Bucket, it.prefix)
        left == Len(all) - it.token
        most == IF left < MaxPageSize THEN left ELSE MaxPageSize
    IN  {[has_contents |-> TRUE,
          Contents |-> SubSeq(all, it.token + 1, it.token + k)] : k \in 1..most}
        \cup (IF it.empties < MaxEmptyPages
              THEN {[has_contents |-> TRUE, Contents |-> <<>>],
                    [has_contents |-> FALSE, Contents |-> <<>>]}
              ELSE {})

\* the listing is exhausted: the last page was not truncated
Exhausted(it) == it.token = Len(ListingOf(Bucket, it.prefix))

\* the handler body: lines 59-94. paginate() only builds the iterator and
\* StreamingResponse only wraps the generator, so nothing in the try block
\* calls the provider and the except clause of lines 96-97 is never entered.
ListRequest(r, folder, prettify) ==
    /\ lreq[r].pc = "idle"
    /\ lreq' = [lreq EXCEPT ![r] =
                  [@ EXCEPT !.pc = "start", !.folder = Strip(folder),
                            !.prefix = PrefixOf(folder),
                            !.prettify = prettify, !.status = 200]]
    /\ page_iterator' =
         [page_iterator EXCEPT ![PageIteratorOf(r)] = Paginate(PrefixOf(folder))]
    /\ UNCHANGED oreq

\* generate() up to its first yield
GenStart(r) ==
    /\ lreq[r].pc = "start"
    /\ lreq' = [lreq EXCEPT ![r] =
                  [@ EXCEPT !.pc = "pages", !.first_item = FirstItemInit,
                            !.out = Append(@, OPEN)]]
    /\ UNCHANGED <<page_iterator, oreq>>

\* for response in page_iterator: one list_objects_v2 call, or the end
GenNextPage(r) ==
    LET i == PageIteratorOf(r)
        it == page_iterator[i]
    IN  /\ lreq[r].pc = "pages"
        /\ \/ \E response \in NextPages(it) :
                LET n == Len(response.Contents)
                IN  /\ page_iterator' =
                         [page_iterator EXCEPT ![i] =
                            [@ EXCEPT !.token = @ + n,
                                      !.empties = IF n = 0 THEN @ + 1 ELSE @]]
                    /\ lreq' = [lreq EXCEPT ![r] =
                                  [@ EXCEPT !.pc = "items",
                                            !.contents = ResponseGetContents(response),
                                            !.idx = 1,
                                            !.returned = @ \o response.Contents]]
           \/ /\ Exhausted(it)
              /\ lreq' = [lreq EXCEPT ![r] =
                            [@ EXCEPT !.pc = "done", !.out = Append(@, CLOSE)]]
              /\ UNCHANGED page_iterator
           \/ \E e \in {"NoCredentialsError", "AccessDenied"} :
                /\ lreq' = [lreq EXCEPT ![r] =
                              [@ EXCEPT !.pc = "failed", !.error = e]]
                /\ UNCHANGED page_iterator
        /\ UNCHANGED oreq

\* for item in contents: up to the next yield
GenItem(r) ==
    LET q == lreq[r]
    IN  /\ q.pc = "items"
        /\ IF q.idx > Len(q.contents)
           THEN lreq' = [lreq EXCEPT ![r] = [@ EXCEPT !.pc = "pages"]]
           ELSE IF ~q.first_item
           THEN lreq' = [lreq EXCEPT ![r] =
                           [@ EXCEPT !.pc = "dump", !.out = Append(@, COMMA)]]
           ELSE lreq' = [lreq EXCEPT ![r] =
                           [@ EXCEPT !.first_item = FALSE, !.idx = @ + 1,
                                     !.out = Append(@,
                                        JsonDumps(ItemDict(q.contents[q.idx],
                                                           q.prettify)))]]
        /\ UNCHANGED <<page_iterator, oreq>>

\* yield json.dumps(item_dict) after the separator
GenDump(r) ==
    LET q == lreq[r]
    IN  /\ q.pc = "dump"
        /\ lreq' = [lreq EXCEPT ![r] =
                      [@ EXCEPT !.pc = "items", !.idx = @ + 1,
                                !.out = Append(@,
                                   JsonDumps(ItemDict(q.contents[q.idx],
                                                      q.prettify)))]]
        /\ UNCHANGED <<page_iterator, oreq>>

(***************************************************************************)
(* head_s3_file and get_s3_file                                            *)
(***************************************************************************)
\* file_path values of /s3/get/{file_path:path}
FilePaths ==
    { <<"m", ".", "j", "s", "o", "n">>,
      <<"M", ".", "J", "S", "O", "N">>,
      <<"/", "a", "/">>,
      <<"a", " ", "b", ".", "j", "s", "o", "n">>,
      <<"a", " ", "b">>,
      <<"x">> }

\* expiry query values, around both ends of the accepted range
Expiries == {600, 601, 3600, 302400, 302401, 3024000, 3024001}

\* gt = 60 * 10
ExpiryGt == 60 * 10
\* le = 3600 * 12 * 7
ExpiryLe == 3600 * 12 * 7

\* the lower end taken as inclusive (ge instead of gt)
ExpiryValidGe(expiry) == expiry >= ExpiryGt /\ expiry <= ExpiryLe

\* the Query(gt=..., le=...) validation of expiry
ExpiryValid(expiry) == expiry > ExpiryGt /\ expiry <= ExpiryLe

NoDetail == [text |-> "", path |-> <<>>, msg |-> ""]
NoHeaders == [ContentLength |-> <<>>, LastModified |-> <<>>]
NoLocation == [Key |-> <<>>, ExpiresIn |-> 0]

Response(status, detail, headers, body, location) ==
    [status |-> status, detail |-> detail, headers |-> headers, body |-> body,
     location |-> location]

\* raise HTTPException(status_code, detail)
HTTPException(status, text, path, msg) ==
    Response(status, [text |-> text, path |-> path, msg |-> msg], NoHeaders,
             <<>>, NoLocation)

\* an exception no handler catches: the framework's bare 500
Unhandled == HTTPException(500, "Internal Server Error", <<>>, "")

\* FastAPI's answer to a query parameter that fails validation
ValidationError == HTTPException(422, "validation error: expiry", <<>>, "")

Call(op, key, expires_in) == [op |-> op, Key |-> key, ExpiresIn |-> expires_in]

\* s3.head_object(Key = key) when the provider injects `fault`
HeadObject(key, fault) ==
    IF fault # "none" THEN [ok |-> FALSE, exc |-> fault, obj |-> Bucket[1]]
    ELSE IF key \in BucketKeys
    THEN [ok |-> TRUE, exc |-> "none", obj |-> ObjectAt(key)]
    ELSE [ok |-> FALSE, exc |-> "NotFound", obj |-> Bucket[1]]

\* s3.get_object(Key = key) when the provider injects `fault`
GetObject(key, fault) ==
    IF fault # "none" THEN [ok |-> FALSE, exc |-> fault, obj |-> Bucket[1]]
    ELSE IF key \in BucketKeys
    THEN [ok |-> TRUE, exc |-> "none", obj |-> ObjectAt(key)]
    ELSE [ok |-> FALSE, exc |-> "NoSuchKey", obj |-> Bucket[1]]

ExcNames == {"NoCredentialsError", "AccessDenied", "NotFound", "NoSuchKey",
             "JSONDecodeError"}

\* the exception objects, by name
Exc(name) ==
    CASE name = "NoCredentialsError" -> NoCredentialsError
      [] name = "AccessDenied" -> AccessDenied
      [] name = "NotFound" -> NotFound
      [] name = "NoSuchKey" -> NoSuchKey
      [] name = "JSONDecodeError" ->
           [cls |-> "JSONDecodeError", code |-> "none",
            msg |-> "Expecting property name enclosed in double quotes"]

\* hasattr(e, "response"): botocore's ClientError carries one
HasResponse(name) == Exc(name).cls = "ClientError"

Faults == {"none", "NoCredentialsError", "AccessDenied"}

\* json.loads(body), then JSONResponse(jsonable_encoder(content)): the
\* bodies of the model are "{}" and the truncated "{"
JsonLoads(body) ==
    IF body = <<"{", "}">> THEN [ok |-> TRUE, content |-> "dict"]
    ELSE [ok |-> FALSE, content |-> "none"]

JsonRender(content) == IF content = "dict" THEN <<"{", "}">> ELSE <<>>

\* the suffix test without lower()
InlineJsonCaseSensitive(read_meta, file_path) ==
    read_meta /\ EndsWith(file_path, DotJson)

\* read_meta and file_path.lower().endswith(".json")
InlineJson(read_meta, file_path) ==
    read_meta /\ EndsWith(Lower(file_path), DotJson)

IdleObj ==
    [pc |-> "idle", kind |-> "none", requested |-> <<>>, file_path |-> <<>>,
     encoded_file_path |-> <<>>, expiry |-> 0, read_meta |-> FALSE,
     calls |-> <<>>, raised |-> <<>>, resp |-> Response(0, NoDetail, NoHeaders, <<>>, NoLocation)]

\* check_object_existence(bucket_name, file_path): the response it raises,
\* or status 0 when it returns
CheckObjectExistence(file_path, fault) ==
    LET r == HeadObject(file_path, fault)
    IN  IF r.ok THEN Response(0, NoDetail, NoHeaders, <<>>, NoLocation)
        ELSE IF r.exc = "NoCredentialsError"
        THEN HTTPException(500, "AWS credentials not available", <<>>, "")
        ELSE HTTPException(404, "File or folder not found: ", file_path, "")

\* read_meta_json(bucket_name, file_path): the exception it meets, or "none"
ReadMetaExc(file_path, fault) ==
    LET r == GetObject(file_path, fault)
    IN  IF ~r.ok THEN r.exc
        ELSE IF ~JsonLoads(r.obj.Body).ok THEN "JSONDecodeError"
        ELSE "none"

ReadMetaJson(file_path, fault) ==
    LET e == ReadMetaExc(file_path, fault)
    IN  IF e = "none"
        THEN Response(200, NoDetail, NoHeaders,
                      JsonRender(JsonLoads(GetObject(file_path, fault).obj.Body).content),
                      NoLocation)
        ELSE HTTPException(500, "Error reading meta.json: ", <<>>, Exc(e).msg)

\* the key get_s3_file hands to read_meta_json
ReadMetaKey(q) == q.file_path

\* the key get_s3_file hands to generate_presigned_url
PresignKey(q) == q.encoded_file_path

\* get_s3_file: parameter validation, then lines 215-217
GetRequest(file_path, expiry, read_meta) ==
    /\ oreq.pc = "idle"
    /\ IF ExpiryValid(expiry)
       THEN oreq' = [oreq EXCEPT !.pc = "probe", !.kind = "get",
                                 !.requested = file_path,
                                 !.file_path = Strip(file_path),
                                 !.encoded_file_path = Quote(Strip(file_path)),
                                 !.expiry = expiry, !.read_meta = read_meta]
       ELSE oreq' = [oreq EXCEPT !.pc = "done", !.kind = "get",
                                 !.requested = file_path,
                                 !.expiry = expiry, !.read_meta = read_meta,
                                 !.resp = ValidationError]
    /\ UNCHANGED <<lreq, page_iterator>>

\* await check_object_existence(bucket_name, encoded_file_path)
GetProbe(fault) ==
    LET key == oreq.encoded_file_path
        r == HeadObject(key, fault)
        resp == CheckObjectExistence(key, fault)
    IN  /\ oreq.pc = "probe"
        /\ oreq' = [oreq EXCEPT
                      !.calls = Append(@, Call("head_object", key, 0)),
                      !.raised = IF r.ok THEN @ ELSE Append(@, r.exc),
                      !.pc = IF r.ok THEN "deliver" ELSE "done",
                      !.resp = resp]
        /\ UNCHANGED <<lreq, page_iterator>>

\* lines 221-233: inline JSON, or the presigned redirect.
\* generate_presigned_url signs locally: the provider is not called and
\* cannot fail there.
GetDeliver(fault) ==
    /\ oreq.pc = "deliver"
    /\ IF InlineJson(oreq.read_meta, oreq.file_path)
       THEN LET key == ReadMetaKey(oreq)
                e == ReadMetaExc(key, fault)
            IN  oreq' = [oreq EXCEPT
                           !.calls = Append(@, Call("get_object", key, 0)),
                           !.raised = IF e = "none" THEN @ ELSE Append(@, e),
                           !.pc = "done",
                           !.resp = ReadMetaJson(key, fault)]
       ELSE /\ fault = "none"
            /\ oreq' = [oreq EXCEPT
                          !.calls = Append(@, Call("generate_presigned_url",
                                                   PresignKey(oreq), oreq.expiry)),
                          !.pc = "done",
                          !.resp = Response(307, NoDetail, NoHeaders, <<>>,
                                            [Key |-> PresignKey(oreq),
                                             ExpiresIn |-> oreq.expiry])]
    /\ UNCHANGED <<lreq, page_iterator>>

\* head_s3_file, lines 162-163
HeadRequest(file_path) ==
    /\ oreq.pc = "idle"
    /\ oreq' = [oreq EXCEPT !.pc = "head", !.kind = "head",
                            !.requested = file_path,
                            !.file_path = file_path,
                            !.encoded_file_path = Quote(Strip(file_path))]
    /\ UNCHANGED <<lreq, page_iterator>>

\* the response of head_s3_file to the outcome of its head_object call
HeadResponse(r) ==
    IF r.ok
    THEN Response(200, NoDetail,
                  [ContentLength |-> Digits(r.obj.Size),
                   LastModified |-> StrftimeHttp(r.obj.LastModified)],
                  <<>>, NoLocation)
    ELSE IF ~HasResponse(r.exc) THEN Unhandled
    ELSE IF Exc(r.exc).code = "404"
    THEN Response(404, NoDetail, NoHeaders, <<>>, NoLocation)
    ELSE HTTPException(500, "AWS Error: ", <<>>, Exc(r.exc).msg)

\* head_s3_file, lines 164-179
HeadCall(fault) ==
    LET key == oreq.encoded_file_path
        r == HeadObject(key, fault)
    IN  /\ oreq.pc = "head"
        /\ oreq' = [oreq EXCEPT
                      !.calls = Append(@, Call("head_object", key, 0)),
                      !.raised = IF r.ok THEN @ ELSE Append(@, r.exc),
                      !.pc = "done",
                      !.resp = HeadResponse(r)]
        /\ UNCHANGED <<lreq, page_iterator>>


Init ==
    /\ lreq = [r \in ListRequests |-> IdleList]
    /\ page_iterator = [r \in ListRequests |-> Paginate(<<>>)]
    /\ oreq = IdleObj

NextList ==
    \/ \E r \in ListRequests, folder \in Folders, prettify \in BOOLEAN :
         ListRequest(r, folder, prettify)
    \/ \E r \in ListRequests : GenStart(r)
    \/ \E r \in ListRequests : GenNextPage(r)
    \/ \E r \in ListRequests : GenItem(r)
    \/ \E r \in ListRequests : GenDump(r)

SpecList == Init /\ [][NextList]_vars

NextObj ==
    \/ \E file_path \in FilePaths, expiry \in Expiries, read_meta \in BOOLEAN :
         GetRequest(file_path, expiry, read_meta)
    \/ \E fault \in Faults : GetProbe(fault)
    \/ \E fault \in Faults : GetDeliver(fault)
    \/ \E file_path \in FilePaths : HeadRequest(file_path)
    \/ \E fault \in Faults : HeadCall(fault)

SpecObj == Init /\ [][NextObj]_vars

(***************************************************************************)
(* Helpers of the properties                                               *)
(***************************************************************************)
RECURSIVE Joined(_, _)
\* the records of a listing as chunks, one separator between neighbours
Joined(recs, prettify) ==
    IF recs = <<>> THEN <<>>
    ELSE IF Len(recs) = 1 THEN <<JsonDumps(ItemDict(recs[1], prettify))>>
    ELSE <<JsonDumps(ItemDict(recs[1], prettify)), COMMA>>
         \o Joined(Tail(recs), prettify)

\* the whole stream of a listing of recs
Expected(recs, prettify) == <<OPEN>> \o Joined(recs, prettify) \o <<CLOSE>>

IsPrefix(s, t) == Len(s) <= Len(t) /\ SubSeq(t, 1, Len(s)) = s

Count(s, c) == Cardinality({i \in 1..Len(s) : s[i] = c})

\* the record chunks of a stream
RecordsOf(out) == SelectSeq(out, LAMBDA c : c \notin {OPEN, COMMA, CLOSE})

RECURSIVE After(_, _)
\* what follows the first occurrence of marker in s
After(s, marker) ==
    IF s = <<>> THEN <<>>
    ELSE IF StartsWith(s, marker) THEN SubSeq(s, Len(marker) + 1, Len(s))
    ELSE After(Tail(s), marker)

RECURSIVE TakeUntil(_, _)
TakeUntil(s, c) ==
    IF s = <<>> \/ Head(s) = c THEN <<>> ELSE <<Head(s)>> \o TakeUntil(Tail(s), c)

\* the value of a string member of a dumped record
StringMember(chunk, field) == TakeUntil(After(chunk, field \o <<"\"">>), "\"")

\* the text of the Size member of a dumped record
SizeMember(chunk) == TakeUntil(After(chunk, SizeField), "}")

DigitChars == {"0", "1", "2", "3", "4", "5", "6", "7", "8", "9"}

\* YYYY-MM-DDTHH:MM:SSZ
IsIso8601(s) ==
    /\ Len(s) = 20
    /\ \A i \in 1..20 :
         CASE i \in {5, 8} -> s[i] = "-"
           [] i = 11 -> s[i] = "T"
           [] i \in {14, 17} -> s[i] = ":"
           [] i = 20 -> s[i] = "Z"
           [] OTHER -> s[i] \in DigitChars

\* the path ends in .json, whatever the case of its letters
EndsDotJsonAnyCase(p) ==
    /\ Len(p) >= 5
    /\ p[Len(p) - 4] = "."
    /\ p[Len(p) - 3] \in {"j", "J"}
    /\ p[Len(p) - 2] \in {"s", "S"}
    /\ p[Len(p) - 1] \in {"o", "O"}
    /\ p[Len(p)] \in {"n", "N"}

Ops(calls) == [i \in 1..Len(calls) |-> calls[i].op]

GetDone == oreq.kind = "get" /\ oreq.pc = "done"
HeadDone == oreq.kind = "head" /\ oreq.pc = "done"

(***************************************************************************)
(* Properties of list_s3_files, checked under SpecList                     *)
(***************************************************************************)
\* C1: a listing that ran to its end streamed exactly "[", the N records
\* the provider returned, in that order, with N-1 separators between them and
\* none before the first or after the last, then "]"; with N = 0 it is "[]".
C1_StreamIsArrayOfReturned ==
    \A r \in ListRequests :
        lreq[r].pc = "done" =>
            LET q == lreq[r]
                n == Len(q.returned)
            IN  /\ q.out = Expected(q.returned, q.prettify)
                /\ Len(RecordsOf(q.out)) = n
                /\ Count(q.out, COMMA) = (IF n = 0 THEN 0 ELSE n - 1)
                /\ q.out[1] = OPEN /\ q.out[Len(q.out)] = CLOSE
                /\ n > 0 => q.out[2] # COMMA /\ q.out[Len(q.out) - 1] # COMMA
                /\ n = 0 => Flatten(q.out) = <<"[", "]">>

\* a finished listing of three records over several pages, one of them empty
C1_Witness ==
    \E r \in ListRequests :
        /\ lreq[r].pc = "done"
        /\ Len(lreq[r].returned) = 3
        /\ page_iterator[r].empties = 1

\* C2: when the provider reports missing credentials during a listing, no
\* chunk has been produced and the response is a 500.
C2_CredentialsFailBeforeOutput ==
    \A r \in ListRequests :
        (lreq[r].pc = "failed" /\ lreq[r].error = "NoCredentialsError") =>
            lreq[r].out = <<>> /\ lreq[r].status = 500

\* C8: whatever the other request does, a request's stream is at every
\* moment the beginning of the stream of its own prefix's listing from the
\* first record, and is all of it once the request is done.
C8_StreamsIndependent ==
    \A r \in ListRequests :
        lreq[r].pc # "idle" =>
            LET q == lreq[r]
                alone == Expected(ListingOf(Bucket, q.prefix), q.prettify)
            IN  /\ IsPrefix(q.out, alone)
                /\ q.pc = "done" => q.out = alone

\* both requests suspended between a separator and its record, at
\* different positions of their listings
C8_Witness ==
    /\ lreq[1].pc = "dump" /\ lreq[2].pc = "dump"
    /\ Len(lreq[1].out) # Len(lreq[2].out)
    /\ page_iterator[1].token # page_iterator[2].token

\* C9: for one provider listing, the prettified and the raw stream hold
\* the same number of records, the i-th records have the same Key, and the raw
\* record carries the byte count as an integer and an ISO-8601 UTC timestamp.
C9_PrettifyAgreesOnKey ==
    \A r1, r2 \in ListRequests :
        ( /\ lreq[r1].pc = "done" /\ lreq[r2].pc = "done"
          /\ lreq[r1].prettify /\ ~lreq[r2].prettify
          /\ lreq[r1].returned = lreq[r2].returned ) =>
            LET pretty == RecordsOf(lreq[r1].out)
                raw == RecordsOf(lreq[r2].out)
                recs == lreq[r2].returned
            IN  /\ Len(pretty) = Len(raw)
                /\ Len(raw) = Len(recs)
                /\ \A i \in 1..Len(raw) :
                     /\ StringMember(pretty[i], KeyField) = recs[i].Key
                     /\ StringMember(raw[i], KeyField) = recs[i].Key
                     /\ SizeMember(raw[i]) = Digits(recs[i].Size)
                     /\ IsIso8601(StringMember(raw[i], LastModifiedField))

\* a prettified and a raw listing of the same three records, both finished
C9_Witness ==
    /\ lreq[1].pc = "done" /\ lreq[2].pc = "done"
    /\ lreq[1].prettify /\ ~lreq[2].prettify
    /\ lreq[1].returned = lreq[2].returned
    /\ Len(lreq[1].returned) = 3

C4_NotFoundNamesRequestedPath ==
    oreq.kind = "get" =>
        /\ oreq.calls # <<>> => oreq.calls[1].op = "head_object"
        /\ (oreq.pc = "done" /\ oreq.raised = <<"NotFound">>) =>
              /\ oreq.resp.status = 404
              /\ oreq.resp.detail.path = Strip(oreq.requested)
              /\ Len(oreq.calls) = 1

\* C5: a provider failure other than "no such object" ends the request
\* with a 500 carrying the provider's message, and a 404 is answered only when
\* the object does not exist.
C5_ProviderErrorsAre500 ==
    oreq.pc = "done" =>
        /\ \A i \in 1..Len(oreq.raised) :
             oreq.raised[i] = "AccessDenied" =>
                /\ oreq.resp.status = 500
                /\ oreq.resp.detail.msg = AccessDenied.msg
        /\ \A i \in 1..Len(oreq.raised) :
             oreq.raised[i] = "NoCredentialsError" => oreq.resp.status = 500
        /\ oreq.resp.status = 404 => oreq.raised = <<"NotFound">>

\* C6: HEAD makes one head_object call and answers 200 with the stored
\* size and timestamp as headers and no body when the object exists, a bare 404
\* when it does not, and for any other provider error a 500 whose detail
\* carries the provider's message.
C6_HeadClassifies ==
    HeadDone =>
        /\ Len(oreq.calls) = 1
        /\ oreq.resp.body = <<>>
        /\ IF oreq.raised = <<>>
           THEN LET o == ObjectAt(oreq.calls[1].Key)
                IN  /\ oreq.resp.status = 200
                    /\ oreq.resp.headers.ContentLength = Digits(o.Size)
                    /\ oreq.resp.headers.LastModified = StrftimeHttp(o.LastModified)
           ELSE IF oreq.raised = <<"NotFound">>
           THEN oreq.resp.status = 404 /\ oreq.resp.detail = NoDetail
           ELSE /\ oreq.resp.status = 500
                /\ oreq.resp.detail.msg = Exc(oreq.raised[1]).msg

\* C7: a GET whose probe found the object answers inline exactly when
\* read_meta is set and the path ends in .json in any case: then get_object is
\* the only further call and the answer is the JSON content, or a 500 when
\* reading or parsing fails, never a redirect; otherwise the answer is a
\* redirect to a URL presigned with ExpiresIn = expiry, without get_object and
\* without content.
C7_InlineIffReadMetaAndJson ==
    (GetDone /\ Len(oreq.calls) = 2) =>
        IF oreq.read_meta /\ EndsDotJsonAnyCase(oreq.file_path)
        THEN /\ Ops(oreq.calls) = <<"head_object", "get_object">>
             /\ oreq.resp.location = NoLocation
             /\ \/ oreq.resp.status = 200 /\ oreq.raised = <<>>
                     /\ oreq.resp.body = <<"{", "}">>
                \/ oreq.resp.status = 500 /\ oreq.raised # <<>>
                     /\ oreq.resp.body = <<>>
        ELSE /\ Ops(oreq.calls) = <<"head_object", "generate_presigned_url">>
             /\ oreq.calls[2].ExpiresIn = oreq.expiry
             /\ oreq.resp.status = 307
             /\ oreq.resp.location.ExpiresIn = oreq.expiry
             /\ oreq.resp.location.Key = oreq.calls[2].Key
             /\ oreq.resp.body = <<>>

\* an upper-case .JSON key delivered inline
C7_Witness ==
    /\ GetDone
    /\ oreq.read_meta
    /\ oreq.file_path = <<"M", ".", "J", "S", "O", "N">>
    /\ oreq.resp.status = 200
    /\ oreq.resp.body = <<"{", "}">>

\* C10: every provider call of one GET names the key the existence probe
\* was made on.
C10_SameKeyInEveryCall ==
    oreq.kind = "get" =>
        \A i \in 1..Len(oreq.calls) : oreq.calls[i].Key = oreq.calls[1].Key

====
